---- MODULE Spec2Model ----
(***************************************************************************)
(* A model of responses.py: the registry of expected calls (RequestsMock   *)
(* ._urls), the matcher (_find_match), the side-effect resolution          *)
(* (_get_response), the dispatcher (_on_request), the call recorder        *)
(* (CallList) and the session control (start / stop / activate / reset),   *)
(* which patches requests.Session.send through mock.patch.                 *)
(*                                                                         *)
(* Strings whose characters matter (URLs, regular expressions) are         *)
(* sequences of one-character strings; bodies are sequences of numbers     *)
(* (code points before encoding, bytes after).                             *)
(***************************************************************************)
EXTENDS Integers, Sequences, FiniteSets, TLC

VARIABLES
    urls,        \* urls[m]: RequestsMock._urls of mock m, a sequence of match dicts
    calls,       \* calls[m]: CallList._calls of mock m, a sequence of Call tuples
    patcher,     \* patcher[m]: RequestsMock._patcher of mock m (absent before start())
    send,        \* the attribute requests.Session.send: "orig" or the hook of a mock
    stack,       \* the activate() wrappers that are running their body, innermost last
    raisesOnStop,\* the installed mock library: does stop() of an unstarted patcher raise?
    disp,        \* history: disp[m] lists the _on_request calls of m since its last reset:
                 \* the request as sent and as left (live), the match, the outcome
    last         \* history: the operation that ran last, and how it ended

vars == <<urls, calls, patcher, send, stack, raisesOnStop, disp, last>>

(***************************************************************************)
(* Bounds of the model.                                                    *)
(***************************************************************************)
MaxUrls == 2        \* expectations a registry holds
MaxDispatch == 3    \* _on_request calls of one mock between two resets
MaxSeqLen == 2      \* length of a side_effect sequence
MaxNest == 2        \* activate() wrappers running at once

(***************************************************************************)
(* Strings.                                                                *)
(***************************************************************************)
Alnum == {"h", "x", "a", "b", "1", "2"}

RECURSIVE Count(_, _)
\* str.count(c) for a one-character c
Count(s, c) ==
    IF s = <<>> THEN 0
    ELSE (IF Head(s) = c THEN 1 ELSE 0) + Count(Tail(s), c)

RECURSIVE IndexOf(_, _)
\* position of the first c in s, 0 when there is none (str.find, 1-based)
IndexOf(s, c) ==
    IF s = <<>> THEN 0
    ELSE IF Head(s) = c THEN 1
    ELSE LET r == IndexOf(Tail(s), c) IN IF r = 0 THEN 0 ELSE r + 1

\* url.replace('?', '/?', 1)
ReplaceFirstQ(s) ==
    LET i == IndexOf(s, "?") IN
    IF i = 0 THEN s
    ELSE SubSeq(s, 1, i - 1) \o <<"/", "?">> \o SubSeq(s, i + 1, Len(s))

\* url.split('?', 1)[0]
SplitQs(s) ==
    LET i == IndexOf(s, "?") IN
    IF i = 0 THEN s ELSE SubSeq(s, 1, i - 1)

RECURSIVE Split(_, _)
\* s.split(c): the pieces of s between the occurrences of c
Split(s, c) ==
    LET i == IndexOf(s, c) IN
    IF i = 0 THEN <<s>>
    ELSE <<SubSeq(s, 1, i - 1)>> \o Split(SubSeq(s, i + 1, Len(s)), c)

\* urlparse(url).query, for a url without a fragment
UrlQuery(url) ==
    LET i == IndexOf(url, "?") IN
    IF i = 0 THEN <<>> ELSE SubSeq(url, i + 1, Len(url))

\* parse_qsl(qs): the (name, value) pairs of the fields name=value of qs, in
\* order; a field without "=" or with a blank value is dropped (the model's
\* alphabet has nothing to unquote)
ParseQsl(qs) ==
    LET Kept(f) == IndexOf(f, "=") \in 1..(Len(f) - 1)
        Pair(f, i) == <<SubSeq(f, 1, i - 1), SubSeq(f, i + 1, Len(f))>>
        Pairs(fields) ==
            [k \in 1..Len(fields) |-> Pair(fields[k], IndexOf(fields[k], "="))]
    IN  Pairs(SelectSeq(Split(qs, "&"), Kept))

\* dict(pairs): the last pair of a name gives its value
DictOf(pairs) ==
    [name \in {pairs[k][1] : k \in 1..Len(pairs)} |->
        pairs[CHOOSE k \in 1..Len(pairs) :
                 /\ pairs[k][1] = name
                 /\ \A j \in (k + 1)..Len(pairs) : pairs[j][1] # name][2]]

RECURSIVE ReEscape(_)
\* re.escape: every character that is not alphanumeric gets a backslash
ReEscape(s) ==
    IF s = <<>> THEN <<>>
    ELSE (IF Head(s) \in Alnum THEN <<Head(s)>> ELSE <<"\\", Head(s)>>)
         \o ReEscape(Tail(s))

RECURSIVE ReTokens(_)
\* the compiled form of a pattern over the model's alphabet: a backslash makes
\* the next character a literal, "." matches any character, and "?" after an
\* atom makes the atom optional
ReTokens(p) ==
    IF p = <<>> THEN <<>>
    ELSE
        LET esc  == Head(p) = "\\" /\ Len(p) >= 2
            used == IF esc THEN 2 ELSE 1
            atom == [ch  |-> IF esc THEN p[2] ELSE p[1],
                     any |-> ~esc /\ Head(p) = "."]
            opt  == Len(p) > used /\ p[used + 1] = "?"
            next == IF opt THEN used + 1 ELSE used
        IN  <<[ch |-> atom.ch, any |-> atom.any, opt |-> opt]>>
            \o ReTokens(SubSeq(p, next + 1, Len(p)))

RECURSIVE ReMatchTokens(_, _)
ReMatchTokens(toks, s) ==
    IF toks = <<>> THEN TRUE
    ELSE
        LET t == Head(toks) IN
        \/ /\ s # <<>>
           /\ (t.any \/ t.ch = Head(s))
           /\ ReMatchTokens(Tail(toks), Tail(s))
        \/ /\ t.opt
           /\ ReMatchTokens(Tail(toks), s)

\* re.match(pattern, string): the pattern matches at the start of the string
ReMatch(p, s) == ReMatchTokens(ReTokens(p), s)

(***************************************************************************)
(* Response (the logical response) and what the host client builds of it.  *)
(***************************************************************************)
RECURSIVE Utf8(_)
\* text.encode('utf-8') for code points below 0x800
Utf8(cps) ==
    IF cps = <<>> THEN <<>>
    ELSE (IF Head(cps) < 128 THEN <<Head(cps)>>
          ELSE <<192 + (Head(cps) \div 64), 128 + (Head(cps) % 64)>>)
         \o Utf8(Tail(cps))

\* Response.__init__: a text body is encoded, a bytes body is kept
Response(body, status, adding_headers, stream, content_type) ==
    [kind           |-> "Response",
     body           |-> IF body.text THEN Utf8(body.val) ELSE body.val,
     status         |-> status,
     adding_headers |-> adding_headers,
     stream         |-> stream,
     content_type   |-> content_type]

\* an update that keeps the keys base already has
DictSetDefault(base, extra) ==
    [k \in DOMAIN base \cup DOMAIN extra |->
        IF k \in DOMAIN base THEN base[k] ELSE extra[k]]

\* dict.update: the keys of extra override those of base
DictUpdate(base, extra) ==
    [k \in DOMAIN base \cup DOMAIN extra |->
        IF k \in DOMAIN extra THEN extra[k] ELSE base[k]]

\* BufferIO(body): a new stream over the bytes, at their start
BufferIO(body) == [data |-> body, pos |-> 0]

\* stream.read(): the bytes from the position of the stream to its end
ReadAll(stream) == SubSeq(stream.data, stream.pos + 1, Len(stream.data))

\* Response._as_http_response
AsHttpResponse(r) ==
    [status  |-> r.status,
     body    |-> BufferIO(r.body),
     headers |-> IF DOMAIN r.adding_headers # {}
                 THEN DictUpdate([k \in {"Content-Type"} |-> r.content_type],
                                 r.adding_headers)
                 ELSE [k \in {"Content-Type"} |-> r.content_type]]

\* Response._as_requests_response: the adapter's response for the request.
\* body is what its stream holds from where the stream stood when the
\* response was built; raw is the stream, read to its end at once
\* (response.content) unless the response streams
AsRequestsResponse(r, request) ==
    LET h == AsHttpResponse(r) IN
    [kind      |-> "response",
     status    |-> h.status,
     headers   |-> h.headers,
     body      |-> ReadAll(h.body),
     raw       |-> IF r.stream THEN h.body
                   ELSE [h.body EXCEPT !.pos = Len(h.body.data)],
     url       |-> request.url,
     preloaded |-> ~r.stream]

(***************************************************************************)
(* The registry: RequestsMock.add.                                         *)
(***************************************************************************)
Mocks == {"m1", "m2"}      \* the RequestsMock instances of the process

NoSideEffect == [kind |-> "none", items |-> <<>>, pos |-> 0, fn |-> "none"]
SeqSideEffect(items) == [kind |-> "seq", items |-> items, pos |-> 0, fn |-> "none"]
CallableSideEffect(fn) == [kind |-> "callable", items |-> <<>>, pos |-> 0, fn |-> fn]
\* a side_effect that is no Sequence, no Iterator and not callable (a number,
\* a dict)
OtherSideEffect == [kind |-> "other", items |-> <<>>, pos |-> 0, fn |-> "none"]

\* the url add() stores: a url with exactly two '/' gets its default path
DefaultPath(url, match_querystring) ==
    IF Count(url, "/") = 2
    THEN (IF match_querystring THEN ReplaceFirstQ(url) ELSE url \o <<"/">>)
    ELSE url

\* iter(side_effect) for a Sequence: an iterator at its start
IterOf(side_effect) ==
    IF side_effect.kind = "seq"
    THEN [side_effect EXCEPT !.kind = "iter", !.pos = 0]
    ELSE side_effect

\* the match dict add() appends
MatchDict(method, url, match_querystring, side_effect, response) ==
    [url               |-> DefaultPath(url, match_querystring),
     method            |-> method,
     match_querystring |-> match_querystring,
     side_effect       |-> IterOf(side_effect),
     response          |-> response]

(***************************************************************************)
(* The matcher: RequestsMock._find_match.                                  *)
(***************************************************************************)
\* the loop body with the url used as a pattern as it stands
UrlMatchesUnescaped(match, request) ==
    /\ request.method = match.method
    /\ IF match.match_querystring
       THEN ReMatch(match.url, request.url)
       ELSE match.url = SplitQs(request.url)

\* the body of the loop: does this match dict pass both tests?
UrlMatches(match, request) ==
    /\ request.method = match.method
    /\ IF match.match_querystring
       THEN ReMatch(ReEscape(match.url), request.url)
       ELSE match.url = SplitQs(request.url)

RECURSIVE FindMatchSkipExhausted(_, _, _)
\* a matcher that passes over a sequence that has no item left
FindMatchSkipExhausted(reg, request, i) ==
    IF i > Len(reg) THEN 0
    ELSE IF /\ UrlMatches(reg[i], request)
            /\ ~(/\ reg[i].side_effect.kind = "iter"
                 /\ reg[i].side_effect.pos >= Len(reg[i].side_effect.items))
         THEN i
    ELSE FindMatchSkipExhausted(reg, request, i + 1)

RECURSIVE FindMatchFrom(_, _, _)
FindMatchFrom(reg, request, i) ==
    IF i > Len(reg) THEN 0
    ELSE IF UrlMatches(reg[i], request) THEN i
    ELSE FindMatchFrom(reg, request, i + 1)

RECURSIVE FindLastMatchFrom(_, _, _)
FindLastMatchFrom(reg, request, i) ==
    IF i < 1 THEN 0
    ELSE IF UrlMatches(reg[i], request) THEN i
    ELSE FindLastMatchFrom(reg, request, i - 1)

\* a matcher that lets a later registration override an earlier one
FindLastMatch(reg, request) == FindLastMatchFrom(reg, request, Len(reg))

\* the index in reg of the match dict _find_match returns, 0 for None
FindMatch(reg, request) == FindMatchFrom(reg, request, 1)

(***************************************************************************)
(* Resolution: Request._from_prepared_request, the callbacks of the model  *)
(* and RequestsMock._get_response.                                         *)
(***************************************************************************)
NoneValue == [kind |-> "None"]

\* a PreparedRequest without body has body None
NoBody == [kind |-> "None", val |-> <<>>]
StrBody(s) == [kind |-> "str", val |-> s]

\* Request._from_prepared_request: the snapshot handed to a callback. Its
\* headers are the headers object of the live request itself (shared names
\* the attributes that are); params and data are new dicts. parse_qsl of the
\* urlparse module (line 34) calls qs.split, so a body of None raises
\* AttributeError and no snapshot is built
FromPreparedRequest(request) ==
    IF request.body.kind = "None"
    THEN [out |-> "raise", value |-> [kind |-> "AttributeError"]]
    ELSE [out |-> "return",
          value |-> [method  |-> request.method,
                     url     |-> request.url,
                     headers |-> request.headers,
                     params  |-> DictOf(ParseQsl(UrlQuery(request.url))),
                     data    |-> DictOf(ParseQsl(request.body.val)),
                     shared  |-> {"headers"}]]

\* the live request after a callback has worked on the snapshot: what the
\* callback did to an object the two share, it did to the live request
AfterCallback(request, snapshot) ==
    [request EXCEPT !.headers = IF "headers" \in snapshot.shared
                                THEN snapshot.headers ELSE @]

PlainResponse(status) ==
    Response([text |-> TRUE, val |-> <<>>], status, <<>>, FALSE, "text/plain")

\* the callables a test registers as side_effect
Callbacks == {"by_method", "returns_none", "returns_transport", "mutates", "raises"}

\* side_effect(snapshot): what the callback returns or raises, and the
\* snapshot as the callback leaves it
CallSideEffect(fn, snapshot) ==
    CASE fn = "by_method" ->
            [out |-> "return",
             value |-> IF snapshot.method # "GET" THEN PlainResponse(404)
                       ELSE PlainResponse(200),
             snapshot |-> snapshot]
      [] fn = "returns_none" ->
            [out |-> "return", value |-> NoneValue, snapshot |-> snapshot]
      [] fn = "returns_transport" ->
            [out |-> "return",
             value |-> AsRequestsResponse(PlainResponse(200), snapshot),
             snapshot |-> snapshot]
      [] fn = "mutates" ->
            [out |-> "return",
             value |-> PlainResponse(200),
             snapshot |-> [snapshot EXCEPT
                              !.method = "PUT",
                              !.url = <<>>,
                              !.headers = DictUpdate(@, [k \in {"X-Seen"} |-> "1"]),
                              !.params = <<>>,
                              !.data = <<>>]]
      [] OTHER ->
            [out |-> "raise", value |-> [kind |-> "CallbackError"],
             snapshot |-> snapshot]

\* a next() that moves the cursor before it looks for the item
NextOfOverrun(side_effect) ==
    IF side_effect.pos < Len(side_effect.items)
    THEN [out |-> "return",
          value |-> side_effect.items[side_effect.pos + 1],
          side_effect |-> [side_effect EXCEPT !.pos = @ + 1]]
    ELSE [out |-> "raise",
          value |-> [kind |-> "StopIteration"],
          side_effect |-> [side_effect EXCEPT !.pos = @ + 1]]

\* a next() that pops the item off the sequence itself
NextOfPop(side_effect) ==
    IF side_effect.items # <<>>
    THEN [out |-> "return",
          value |-> Head(side_effect.items),
          side_effect |-> [side_effect EXCEPT !.items = Tail(@)]]
    ELSE [out |-> "raise",
          value |-> [kind |-> "StopIteration"],
          side_effect |-> side_effect]

\* an iterator whose cursor never moves
NextOfStuck(side_effect) ==
    IF side_effect.pos < Len(side_effect.items)
    THEN [out |-> "return",
          value |-> side_effect.items[side_effect.pos + 1],
          side_effect |-> side_effect]
    ELSE [out |-> "raise",
          value |-> [kind |-> "StopIteration"],
          side_effect |-> side_effect]

\* next(iterator): the item under the cursor and the cursor moved, or
\* StopIteration
NextOf(side_effect) ==
    IF side_effect.pos < Len(side_effect.items)
    THEN [out |-> "return",
          value |-> side_effect.items[side_effect.pos + 1],
          side_effect |-> [side_effect EXCEPT !.pos = @ + 1]]
    ELSE [out |-> "raise",
          value |-> [kind |-> "StopIteration"],
          side_effect |-> side_effect]

\* a fixed response that is handed out once
FixedResponseOnce(match) ==
    IF match.side_effect.pos = 0
    THEN [out |-> "return", value |-> match.response,
          side_effect |-> [match.side_effect EXCEPT !.pos = 1]]
    ELSE [out |-> "return", value |-> NoneValue,
          side_effect |-> match.side_effect]

\* the branch of _get_response for a match dict without side_effect: the
\* Response the match dict holds, which stays there
FixedResponse(match) ==
    [out |-> "return", value |-> match.response,
     side_effect |-> match.side_effect]

\* what _get_response hands on of a resolution r that left the request alone
\* and called no callback
Resolved(r, request) ==
    [out |-> r.out, value |-> r.value, side_effect |-> r.side_effect,
     request |-> request, called |-> <<>>]

\* what _get_response hands on of the call r of the callback with the
\* snapshot
Called(match, request, snapshot, r) ==
    [out |-> r.out, value |-> r.value, side_effect |-> match.side_effect,
     request |-> AfterCallback(request, r.snapshot), called |-> <<snapshot>>]

\* the branch of _get_response for a callable: side_effect(s) for the
\* snapshot s, or the failure to build s
CallableResponse(match, request, s) ==
    IF s.out = "raise"
    THEN Resolved([out |-> "raise", value |-> s.value,
                   side_effect |-> match.side_effect], request)
    ELSE Called(match, request, s.value,
                CallSideEffect(match.side_effect.fn, s.value))

\* _get_response for a match dict (match is not None): what it returns or
\* raises, the side_effect it leaves in the match dict, the live request as
\* it leaves it, and the snapshots it called the callback with
GetResponse(match, request) ==
    IF match.side_effect.kind # "none"
    THEN IF match.side_effect.kind = "callable"
         THEN CallableResponse(match, request, FromPreparedRequest(request))
         ELSE IF match.side_effect.kind = "iter"
         THEN Resolved(NextOf(match.side_effect), request)
         ELSE Resolved([out |-> "return", value |-> NoneValue,
                        side_effect |-> match.side_effect], request)
    ELSE Resolved(FixedResponse(match), request)

(***************************************************************************)
(* The dispatcher: RequestsMock._on_request.                               *)
(***************************************************************************)
\* a failure whose message forgets the url
ConnectionErrorNoUrl(url) ==
    [kind |-> "ConnectionError", msg |-> <<"Connection refused: ">>]

ConnectionError(url) ==
    [kind |-> "ConnectionError", msg |-> <<"Connection refused: ">> \o url]

Call(request, response) == [request |-> request, response |-> response]

\* a recorder that puts the newest call first
CallListAddFirst(list, request, response) == <<Call(request, response)>> \o list

\* CallList.add
CallListAdd(list, request, response) == Append(list, Call(request, response))

\* _on_request from line 225 on, for what resolution returned or raised (r),
\* the request as resolution left it (live) and the registry it left (reg2)
Finish(reg2, cl, i, r, live) ==
    IF r.out = "raise"
    THEN [urls |-> reg2, calls |-> cl, match |-> i,
          out |-> "raised", response |-> r.value,
          called |-> r.called, live |-> live]
    ELSE IF r.value = NoneValue
    THEN [urls |-> reg2,
          calls |-> CallListAdd(cl, live, ConnectionError(live.url)),
          match |-> i,
          out |-> "refused", response |-> ConnectionError(live.url),
          called |-> r.called, live |-> live]
    ELSE IF r.value.kind # "Response"
    THEN [urls |-> reg2, calls |-> cl, match |-> i,
          out |-> "raised", response |-> [kind |-> "AttributeError"],
          called |-> r.called, live |-> live]
    ELSE [urls |-> reg2,
          calls |-> CallListAdd(cl, live, AsRequestsResponse(r.value, live)),
          match |-> i,
          out |-> "returned", response |-> AsRequestsResponse(r.value, live),
          called |-> r.called, live |-> live]

\* _on_request after _get_response gave r for the match dict at i
Resolve(reg, cl, i, r) ==
    Finish([reg EXCEPT ![i].side_effect = r.side_effect], cl, i, r, r.request)

\* _on_request for the index i that _find_match returned, 0 for None:
\* _get_response, whose side_effect stays in the match dict
Respond(reg, cl, request, i) ==
    IF i = 0
    THEN Finish(reg, cl, 0,
                Resolved([out |-> "return", value |-> NoneValue,
                          side_effect |-> NoSideEffect], request),
                request)
    ELSE Resolve(reg, cl, i, GetResponse(reg[i], request))

\* _on_request on the registry reg and the call list cl: the registry and the
\* call list it leaves, the index it matched, how it ended ("returned",
\* "refused": the ConnectionError, "raised": what resolution or the
\* conversion raised), what it returned or raised, the snapshots the callback
\* was called with and the live request as it is afterwards. What resolution
\* returned has _as_requests_response only if it is a Response
OnRequest(reg, cl, request) ==
    Respond(reg, cl, request, FindMatch(reg, request))

(***************************************************************************)
(* Session control: mock.patch('requests.Session.send', self._on_request). *)
(***************************************************************************)
NoPatcher == [exists |-> FALSE, started |-> FALSE, original |-> "none"]

\* start(): a new patcher replaces self._patcher; starting it remembers the
\* attribute's present value and installs the hook of mock m
StartEffect(m, p, s) ==
    [patcher |-> [exists |-> TRUE, started |-> TRUE, original |-> s],
     send    |-> m]

\* stop(): self._patcher.stop(). Without a patcher the attribute lookup fails;
\* a patcher that is not started raises RuntimeError or does nothing, as the
\* installed mock library has it; a started one puts back what it remembered
StopEffect(p, s, raises) ==
    IF ~p.exists
    THEN [out |-> "AttributeError", patcher |-> p, send |-> s]
    ELSE IF ~p.started
    THEN [out |-> IF raises THEN "RuntimeError" ELSE "return",
          patcher |-> p, send |-> s]
    ELSE [out |-> "return",
          patcher |-> [p EXCEPT !.started = FALSE, !.original = "none"],
          send |-> p.original]

(***************************************************************************)
(* The state after the module is imported and the mocks are constructed.   *)
(***************************************************************************)
Op(op, m, out, body) == [op |-> op, mock |-> m, out |-> out, body |-> body]

\* libs: the behaviours of the mock library that may be installed
InitWith(libs) ==
    /\ urls = [m \in Mocks |-> <<>>]
    /\ calls = [m \in Mocks |-> <<>>]
    /\ patcher = [m \in Mocks |-> NoPatcher]
    /\ send = "orig"
    /\ stack = <<>>
    /\ raisesOnStop \in libs
    /\ disp = [m \in Mocks |-> <<>>]
    /\ last = Op("init", "none", "return", "none")

\* with either mock library
Init == InitWith(BOOLEAN)

\* with the mock library of the code's time; the specifications that never
\* stop a patcher start here
InitOne == InitWith({TRUE})

(***************************************************************************)
(* The operations.                                                         *)
(***************************************************************************)
\* an add() that keeps one iterator for each sequence: a sequence registered
\* before is taken up where its iterator stands
AddSharedIter(m, method, url, match_querystring, side_effect, response) ==
    LET same == {i \in 1..Len(urls[m]) :
                    /\ urls[m][i].side_effect.kind = "iter"
                    /\ urls[m][i].side_effect.items = side_effect.items}
        match == MatchDict(method, url, match_querystring, side_effect, response)
    IN
    /\ Len(urls[m]) < MaxUrls
    /\ urls' = [urls EXCEPT ![m] =
                   Append(@, IF side_effect.kind = "seq" /\ same # {}
                             THEN [match EXCEPT !.side_effect.pos =
                                      urls[m][CHOOSE i \in same : TRUE].side_effect.pos]
                             ELSE match)]
    /\ last' = Op("add", m, "return", "none")
    /\ UNCHANGED <<calls, patcher, send, stack, raisesOnStop, disp>>

\* RequestsMock.add
Add(m, method, url, match_querystring, side_effect, response) ==
    /\ Len(urls[m]) < MaxUrls
    /\ urls' = [urls EXCEPT ![m] =
                   Append(@, MatchDict(method, url, match_querystring,
                                       side_effect, response))]
    /\ last' = Op("add", m, "return", "none")
    /\ UNCHANGED <<calls, patcher, send, stack, raisesOnStop, disp>>

\* a reset that forgets the call list
ResetKeepsCalls(m) ==
    /\ urls' = [urls EXCEPT ![m] = <<>>]
    /\ disp' = [disp EXCEPT ![m] = <<>>]
    /\ last' = Op("reset", m, "return", "none")
    /\ UNCHANGED <<calls, patcher, send, stack, raisesOnStop>>

\* RequestsMock.reset, with CallList.reset
Reset(m) ==
    /\ urls' = [urls EXCEPT ![m] = <<>>]
    /\ calls' = [calls EXCEPT ![m] = <<>>]
    /\ disp' = [disp EXCEPT ![m] = <<>>]
    /\ last' = Op("reset", m, "return", "none")
    /\ UNCHANGED <<patcher, send, stack, raisesOnStop>>

\* a start() that also empties the registry and the recorder
StartAndReset(m) ==
    LET e == StartEffect(m, patcher[m], send) IN
    /\ patcher' = [patcher EXCEPT ![m] = e.patcher]
    /\ send' = e.send
    /\ urls' = [urls EXCEPT ![m] = <<>>]
    /\ calls' = [calls EXCEPT ![m] = <<>>]
    /\ disp' = [disp EXCEPT ![m] = <<>>]
    /\ last' = Op("start", m, "return", "none")
    /\ UNCHANGED <<stack, raisesOnStop>>

\* RequestsMock.start
Start(m) ==
    LET e == StartEffect(m, patcher[m], send) IN
    /\ patcher' = [patcher EXCEPT ![m] = e.patcher]
    /\ send' = e.send
    /\ last' = Op("start", m, "return", "none")
    /\ UNCHANGED <<urls, calls, stack, raisesOnStop, disp>>

\* RequestsMock.stop
Stop(m) ==
    LET e == StopEffect(patcher[m], send, raisesOnStop) IN
    /\ patcher' = [patcher EXCEPT ![m] = e.patcher]
    /\ send' = e.send
    /\ last' = Op("stop", m, e.out, "none")
    /\ UNCHANGED <<urls, calls, stack, raisesOnStop, disp>>

\* the wrapper of activate() up to the call of the test body: self.start()
ActivateEnter(m) ==
    LET e == StartEffect(m, patcher[m], send) IN
    /\ Len(stack) < MaxNest
    /\ patcher' = [patcher EXCEPT ![m] = e.patcher]
    /\ send' = e.send
    /\ stack' = Append(stack, m)
    /\ last' = Op("enter", m, "return", "none")
    /\ UNCHANGED <<urls, calls, raisesOnStop, disp>>

\* the wrapper of activate() from the end of the test body, which returned or
\* raised: the finally clause runs self.stop() and then self.reset(); a stop()
\* that raises leaves the clause before reset()
ActivateExit(body) ==
    /\ stack # <<>>
    /\ LET m == stack[Len(stack)]
           e == StopEffect(patcher[m], send, raisesOnStop)
       IN  /\ patcher' = [patcher EXCEPT ![m] = e.patcher]
           /\ send' = e.send
           /\ IF e.out = "return"
              THEN /\ urls' = [urls EXCEPT ![m] = <<>>]
                   /\ calls' = [calls EXCEPT ![m] = <<>>]
                   /\ disp' = [disp EXCEPT ![m] = <<>>]
                   /\ last' = Op("exit", m, body, body)
              ELSE /\ UNCHANGED <<urls, calls, disp>>
                   /\ last' = Op("exit", m, e.out, body)
    /\ stack' = SubSeq(stack, 1, Len(stack) - 1)
    /\ UNCHANGED raisesOnStop

\* requests.Session.send(request): the original send path (the network, which
\* is outside the model) or the _on_request of the mock whose hook is installed
Send(request) ==
    IF send = "orig"
    THEN /\ last' = Op("send", "none", "network", "none")
         /\ UNCHANGED <<urls, calls, patcher, send, stack, raisesOnStop, disp>>
    ELSE LET m == send
             r == OnRequest(urls[m], calls[m], request)
         IN  /\ Len(disp[m]) < MaxDispatch
             /\ urls' = [urls EXCEPT ![m] = r.urls]
             /\ calls' = [calls EXCEPT ![m] = r.calls]
             /\ disp' = [disp EXCEPT ![m] =
                           Append(@, [request |-> request, match |-> r.match,
                                      out |-> r.out, response |-> r.response,
                                      called |-> r.called, live |-> r.live])]
             /\ last' = Op("send", m, r.out, "none")
             /\ UNCHANGED <<patcher, send, stack, raisesOnStop>>

\* the test reads n more bytes of the k-th recorded response of mock m, a
\* response whose stream is not at its end (response.raw.read(n))
ReadResponse(m, k, n) ==
    /\ k \in 1..Len(calls[m])
    /\ calls[m][k].response.kind = "response"
    /\ n \in 1..(Len(calls[m][k].response.raw.data)
                  - calls[m][k].response.raw.pos)
    /\ calls' = [calls EXCEPT ![m][k].response.raw.pos = @ + n]
    /\ last' = Op("read", m, "return", "none")
    /\ UNCHANGED <<urls, patcher, send, stack, raisesOnStop, disp>>

(***************************************************************************)
(* Inputs.                                                                 *)
(***************************************************************************)
Methods == {"GET", "POST"}

UHost == <<"h", ":", "/", "/", "x">>             \* h://x
URoot == UHost \o <<"/">>                        \* h://x/
UQ1 == URoot \o <<"?", "a", "=", "1">>           \* h://x/?a=1
UQ2 == URoot \o <<"?", "a", "=", "2">>           \* h://x/?a=2
UQ12 == UQ1 \o <<"2">>                           \* h://x/?a=12
UHostQ1 == UHost \o <<"?", "a", "=", "1">>       \* h://x?a=1
USlashA1 == URoot \o <<"a", "=", "1">>           \* h://x/a=1

\* a PreparedRequest
RequestWith(method, url, headers, body) ==
    [method |-> method, url |-> url, headers |-> headers, body |-> body]

\* one without headers and without body
Request(method, url) == RequestWith(method, url, <<>>, NoBody)

\* the responses add() is given in the model: "a" as text, and 0xC3 0xA9 as
\* bytes with a header of its own
RespA == Response([text |-> TRUE, val |-> <<97>>], 200, <<>>, FALSE, "text/plain")
RespB ==
    Response([text |-> FALSE, val |-> <<195, 169>>], 404,
             [k \in {"X-Foo"} |-> "1"], FALSE, "text/plain")
RespC ==
    Response([text |-> TRUE, val |-> <<233>>], 201,
             [k \in {"Content-Type"} |-> "json"], TRUE, "text/plain")

\* the sequence R1..Rn: responses told apart by their status
RECURSIVE Rs(_)
Rs(n) == IF n = 0 THEN <<>> ELSE Append(Rs(n - 1), PlainResponse(200 + n))

(***************************************************************************)
(* Spec: the dispatcher. One mock and one url, registered for GET or POST  *)
(* with a fixed response, a sequence of one or of MaxSeqLen responses, or   *)
(* a callback that raises.                                                 *)
(***************************************************************************)
SideEffects ==
    {NoSideEffect, CallableSideEffect("raises")}
    \cup {SeqSideEffect(Rs(n)) : n \in {1, MaxSeqLen}}

\* a GET without body, and a POST of the form a=1
Requests ==
    {Request("GET", URoot),
     RequestWith("POST", URoot, <<>>, StrBody(<<"a", "=", "1">>))}

Next ==
    \/ \E method \in Methods, se \in SideEffects :
          Add("m1", method, URoot, FALSE, se, RespA)
    \/ Reset("m1")
    \/ Start("m1")
    \/ \E request \in Requests : Send(request)

Spec == InitOne /\ [][Next]_vars

(***************************************************************************)
(* SpecMatch: the matcher. One mock, fixed responses, every url and        *)
(* match_querystring for GET and one expectation for POST; a few GET       *)
(* requests are sent to the registry.                                      *)
(***************************************************************************)
MaxProbes == 1      \* requests sent to one registry in SpecMatch

AddUrls == {UHost, URoot, UQ1, UHostQ1}
ProbeUrls == {URoot, UQ1, UQ2, UQ12, USlashA1}

NextMatch ==
    \/ \E url \in AddUrls, mq \in BOOLEAN :
          Add("m1", "GET", url, mq, NoSideEffect, RespA)
    \/ Add("m1", "POST", URoot, FALSE, NoSideEffect, RespA)
    \/ Start("m1")
    \/ \E url \in ProbeUrls :
          /\ Len(disp["m1"]) < MaxProbes
          /\ Send(Request("GET", url))

SpecMatch == InitOne /\ [][NextMatch]_vars

(***************************************************************************)
(* SpecFixed: fixed responses that differ, with and without                *)
(* match_querystring.                                                      *)
(***************************************************************************)
FixedUrls == {URoot, UQ1}
FixedRequests ==
    {Request("GET", URoot), Request("GET", UQ1), Request("GET", UQ2),
     Request("POST", URoot)}

NextFixed ==
    \/ \E url \in FixedUrls, mq \in BOOLEAN, response \in {RespB, RespC} :
          Add("m1", "GET", url, mq, NoSideEffect, response)
    \/ Start("m1")
    \/ Reset("m1")
    \/ \E request \in FixedRequests :
          /\ Len(disp["m1"]) < MaxProbes
          /\ Send(request)

SpecFixed == InitOne /\ [][NextFixed]_vars

(***************************************************************************)
(* SpecSession: start, stop, reset and activate of two mocks, with either  *)
(* mock library. The second mock registers nothing.                        *)
(***************************************************************************)
MaxSessionSends == 1    \* requests one mock sees between two resets in SpecSession

NextSession ==
    \/ Add("m1", "GET", URoot, FALSE, NoSideEffect, RespA)
    \/ Reset("m1")
    \/ \E m \in Mocks : Start(m)
    \/ \E m \in Mocks : Stop(m)
    \/ \E m \in Mocks : ActivateEnter(m)
    \/ \E body \in {"return", "raise"} : ActivateExit(body)
    \/ /\ send # "orig" => Len(disp[send]) < MaxSessionSends
       /\ Send(Request("GET", URoot))

SpecSession == Init /\ [][NextSession]_vars

(***************************************************************************)
(* SpecHost: urls with and without the default path, registered and        *)
(* requested.                                                              *)
(***************************************************************************)
HostUrls == {UHost, URoot}

NextHost ==
    \/ \E method \in Methods, url \in HostUrls, mq \in BOOLEAN :
          Add("m1", method, url, mq, NoSideEffect, RespA)
    \/ Start("m1")
    \/ \E method \in Methods, url \in HostUrls :
          /\ Len(disp["m1"]) < MaxProbes
          /\ Send(Request(method, url))

SpecHost == InitOne /\ [][NextHost]_vars

(***************************************************************************)
(* SpecCallback: what a side_effect may be. One mock and one url,          *)
(* registered for GET or POST with each callback or with a side_effect     *)
(* that is neither callable nor iterable; requests with and without body,  *)
(* with and without query string.                                          *)
(***************************************************************************)
MaxCallbackSends == 2   \* requests one mock sees in SpecCallback

CallbackEffects ==
    {CallableSideEffect(fn) : fn \in Callbacks}
    \cup {OtherSideEffect}

Accept == [k \in {"Accept"} |-> "*"]

CallbackRequests ==
    {Request("GET", URoot),
     RequestWith("GET", UQ1, Accept, StrBody(<<"b", "=", "2", "&", "b", "=", "1">>)),
     RequestWith("POST", URoot, Accept, StrBody(<<"a", "=", "1">>))}

NextCallback ==
    \/ \E method \in Methods, se \in CallbackEffects :
          Add("m1", method, URoot, FALSE, se, RespA)
    \/ Start("m1")
    \/ \E request \in CallbackRequests :
          /\ Len(disp["m1"]) < MaxCallbackSends
          /\ Send(request)

SpecCallback == InitOne /\ [][NextCallback]_vars

(***************************************************************************)
(* SpecReuse: fixed responses, streamed or not, answered again and again   *)
(* while the test reads the responses it got, in part or to the end.       *)
(***************************************************************************)
NextReuse ==
    \/ \E method \in Methods, response \in {RespB, RespC} :
          Add("m1", method, URoot, FALSE, NoSideEffect, response)
    \/ Start("m1")
    \/ \E method \in Methods : Send(Request(method, URoot))
    \/ \E k \in 1..MaxDispatch, n \in 1..2 : ReadResponse("m1", k, n)

SpecReuse == InitOne /\ [][NextReuse]_vars

(***************************************************************************)
(* The vocabulary of the properties.                                       *)
(***************************************************************************)
\* a is a prefix of b, character by character
IsPrefix(a, b) == Len(a) <= Len(b) /\ \A k \in 1..Len(a) : a[k] = b[k]

HasQuery(url) == \E k \in 1..Len(url) : url[k] = "?"

\* the url up to its query string
WithoutQuery(url) ==
    IF HasQuery(url)
    THEN SubSeq(url, 1, (CHOOSE k \in 1..Len(url) :
                            url[k] = "?" /\ \A j \in 1..(k - 1) : url[j] # "?") - 1)
    ELSE url

\* the expectation e satisfies the request: same method, and its url rule
Satisfies(e, request) ==
    /\ e.method = request.method
    /\ IF e.match_querystring
       THEN IsPrefix(e.url, request.url)
       ELSE e.url = WithoutQuery(request.url)

\* the headers of a logical response: its content type, and its extra headers
\* over it
HeadersOf(r) ==
    [k \in {"Content-Type"} \cup DOMAIN r.adding_headers |->
        IF k \in DOMAIN r.adding_headers THEN r.adding_headers[k]
        ELSE r.content_type]

\* the transport response resp carries the logical response r
Delivers(resp, r) ==
    /\ resp.kind = "response"
    /\ resp.status = r.status
    /\ resp.body = r.body
    /\ resp.headers = HeadersOf(r)

\* the last operation was a request that reached the _on_request of a mock
Dispatched == last.op = "send" /\ last.mock # "none"

\* the record of that dispatch
LastDispatch == disp[last.mock][Len(disp[last.mock])]

\* the indices of the expectations of mock m that satisfy the request
Satisfying(m, request) ==
    {i \in 1..Len(urls[m]) : Satisfies(urls[m][i], request)}

(***************************************************************************)
(* C1. The matcher returns the expectation with the smallest registration  *)
(* index among those that satisfy the request (same method, url rule), and *)
(* none exactly when no expectation satisfies it: of two satisfying        *)
(* expectations the one registered first resolves the request.             *)
(***************************************************************************)
C1_FirstMatchWins ==
    Dispatched =>
        LET S == Satisfying(last.mock, LastDispatch.request) IN
        IF S = {} THEN LastDispatch.match = 0
        ELSE /\ LastDispatch.match \in S
             /\ \A j \in S : LastDispatch.match <= j

\* two expectations satisfy the request, and it resolved via the first
C1_Witness ==
    /\ Dispatched
    /\ Satisfying(last.mock, LastDispatch.request) = {1, 2}
    /\ urls[last.mock][1] # urls[last.mock][2]
    /\ LastDispatch.match = 1

(***************************************************************************)
(* C2, as stated. For every expectation registered without side_effect and *)
(* every request with the same method and the same url (the request's      *)
(* query string ignored unless match_querystring), the dispatch returns a  *)
(* response with                                                           *)
(* the body, status and headers of the expectation's fixed response.       *)
(***************************************************************************)
SameUrl(e, request) ==
    IF e.match_querystring THEN request.url = e.url
    ELSE WithoutQuery(request.url) = e.url

C2_AsStated ==
    Dispatched =>
        \A i \in 1..Len(urls[last.mock]) :
            LET e == urls[last.mock][i] IN
            (/\ e.side_effect.kind = "none"
             /\ e.method = LastDispatch.request.method
             /\ SameUrl(e, LastDispatch.request))
            => (/\ LastDispatch.out = "returned"
                /\ Delivers(LastDispatch.response, e.response))

(***************************************************************************)
(* C2, amended. The same, for a request that no expectation registered     *)
(* earlier satisfies.                                                      *)
(***************************************************************************)
C2_FixedResponse ==
    Dispatched =>
        \A i \in 1..Len(urls[last.mock]) :
            LET e == urls[last.mock][i] IN
            (/\ e.side_effect.kind = "none"
             /\ e.method = LastDispatch.request.method
             /\ SameUrl(e, LastDispatch.request)
             /\ \A j \in 1..(i - 1) :
                   ~Satisfies(urls[last.mock][j], LastDispatch.request))
            => (/\ LastDispatch.out = "returned"
                /\ LastDispatch.match = i
                /\ Delivers(LastDispatch.response, e.response))

\* the second expectation answered, with a Content-Type of its own, a request
\* the first does not satisfy
C2_Witness ==
    /\ Dispatched
    /\ Len(urls[last.mock]) = 2
    /\ LastDispatch.match = 2
    /\ urls[last.mock][2].match_querystring
    /\ SameUrl(urls[last.mock][2], LastDispatch.request)
    /\ urls[last.mock][2].response = RespC
    /\ LastDispatch.response.headers["Content-Type"] = "json"

(***************************************************************************)
(* C3. A dispatch of a request that no registered expectation satisfies    *)
(* ends in the ConnectionError whose message carries the request's url,    *)
(* with exactly one Call (request, failure) appended to the recorder when  *)
(* the failure is raised, and the registry as it was.                      *)
(***************************************************************************)
C3_NoMatchRefused ==
    [][\A request \in Requests :
          (/\ send # "orig"
           /\ Satisfying(send, request) = {}
           /\ Send(request))
          => (/\ last'.out = "refused"
              /\ disp'[send][Len(disp'[send])].response.kind = "ConnectionError"
              /\ \E k \in 1..Len(disp'[send][Len(disp'[send])].response.msg) :
                    SubSeq(disp'[send][Len(disp'[send])].response.msg, k,
                           Len(disp'[send][Len(disp'[send])].response.msg))
                        = request.url
              /\ calls'[send] =
                    Append(calls[send],
                           [request |-> request,
                            response |-> disp'[send][Len(disp'[send])].response])
              /\ urls' = urls)]_vars

\* a POST was refused by a registry that holds expectations, after an earlier
\* call was recorded
C3_Witness ==
    /\ Dispatched
    /\ last.out = "refused"
    /\ LastDispatch.match = 0
    /\ urls[last.mock] # <<>>
    /\ Len(calls[last.mock]) = 2
    /\ calls[last.mock][2].response.kind = "ConnectionError"

(***************************************************************************)
(* C4, as stated. After N dispatches since the last reset the recorder     *)
(* holds N calls, the i-th the (request, response or error) of the i-th    *)
(* dispatch.                                                               *)
(***************************************************************************)
C4_AsStated ==
    \A m \in Mocks :
        /\ Len(calls[m]) = Len(disp[m])
        /\ \A i \in 1..Len(disp[m]) :
              /\ calls[m][i].request = disp[m][i].request
              /\ calls[m][i].response = disp[m][i].response

(***************************************************************************)
(* C4, amended. After N dispatches since the last reset the recorder holds *)
(* one call for each dispatch that returned a response or ended in the     *)
(* ConnectionError, in dispatch order, each the (request, response or      *)
(* ConnectionError) of its dispatch, the request being the live request as *)
(* the dispatch left it; a dispatch whose resolution raised                *)
(* (the sequence exhausted, the callback raised) recorded nothing.         *)
(***************************************************************************)
Recorded(d) == d.out # "raised"

C4_RecorderOrder ==
    \A m \in Mocks :
        LET kept == SelectSeq(disp[m], Recorded) IN
        /\ Len(calls[m]) = Len(kept)
        /\ \A i \in 1..Len(kept) :
              /\ calls[m][i].request = kept[i].live
              /\ calls[m][i].response = kept[i].response

\* three dispatches: one returned, one was refused, one raised; two calls
C4_Witness ==
    /\ Len(disp["m1"]) = 3
    /\ {disp["m1"][i].out : i \in 1..3} = {"returned", "refused", "raised"}
    /\ disp["m1"][2].out = "raised"
    /\ Len(calls["m1"]) = 2

(***************************************************************************)
(* C5. For an expectation registered with the sequence R1..Rn, the k-th    *)
(* dispatch that resolves via it returns Rk for every k <= n, and every    *)
(* later dispatch that resolves via it fails with the exhaustion signal.   *)
(***************************************************************************)
C5_SequenceOrder ==
    \A m \in Mocks : \A i \in 1..Len(urls[m]) :
        urls[m][i].side_effect.kind = "iter" =>
            LET Via(d) == d.match = i
                hits == SelectSeq(disp[m], Via)
                items == urls[m][i].side_effect.items
            IN  \A k \in 1..Len(hits) :
                    IF k <= Len(items)
                    THEN /\ hits[k].out = "returned"
                         /\ Delivers(hits[k].response, items[k])
                    ELSE /\ hits[k].out = "raised"
                         /\ hits[k].response.kind = "StopIteration"

\* R1 and R2 were returned in order by the second expectation, and the third
\* dispatch via it found the sequence exhausted
C5_Witness ==
    /\ Len(urls["m1"]) = 2
    /\ urls["m1"][2].side_effect.kind = "iter"
    /\ Len(urls["m1"][2].side_effect.items) = 2
    /\ Len(disp["m1"]) = 3
    /\ \A k \in 1..3 : disp["m1"][k].match = 2
    /\ disp["m1"][1].response.status = 201
    /\ disp["m1"][2].response.status = 202
    /\ disp["m1"][3].out = "raised"

(***************************************************************************)
(* C10. An expectation registered with match_querystring satisfies a       *)
(* request of its method if and only if its stored url, every character    *)
(* taken literally, is a prefix of the request's full url: the matcher     *)
(* passes over every such expectation whose url is no prefix, and returns  *)
(* such an expectation only when its url is one. h://x/?a=1 does not       *)
(* match a request for h://x/?a=2.                                         *)
(***************************************************************************)
C10_QuerystringPrefix ==
    Dispatched =>
        LET reg == urls[last.mock]
            request == LastDispatch.request
            upto == IF LastDispatch.match = 0 THEN Len(reg)
                    ELSE LastDispatch.match
        IN  \A i \in 1..upto :
                (reg[i].match_querystring /\ reg[i].method = request.method)
                => (LastDispatch.match = i <=> IsPrefix(reg[i].url, request.url))

\* h://x/?a=1 with match_querystring was passed over for h://x/?a=2
C10_Witness ==
    /\ Dispatched
    /\ LastDispatch.request = Request("GET", UQ2)
    /\ Len(urls[last.mock]) >= 1
    /\ urls[last.mock][1].match_querystring
    /\ urls[last.mock][1].url = UQ1
    /\ urls[last.mock][1].method = "GET"
    /\ LastDispatch.match # 1

(***************************************************************************)
(* C6. When the activate wrapper exits, whether the body returned or       *)
(* raised, the registry and the recorder of its mock are empty, the hook   *)
(* of its mock is uninstalled (with no wrapper running and no session      *)
(* active, the send path of the host is the original one), and the wrapper *)
(* ends as the body ended.                                                 *)
(***************************************************************************)
Active(m) == patcher[m].exists /\ patcher[m].started

C6_ActivateIsolation ==
    last.op = "exit" =>
        /\ urls[last.mock] = <<>>
        /\ calls[last.mock] = <<>>
        /\ send # last.mock
        /\ (stack = <<>> /\ \A m \in Mocks : ~Active(m)) => send = "orig"
        /\ last.out = last.body

(***************************************************************************)
(* C7. After a stop() that returns, the hook of the mock is uninstalled,    *)
(* and with no session left active the send path of the host is the        *)
(* original one, whatever starts and stops of whichever mocks came before. *)
(***************************************************************************)
C7_StopUninstalls ==
    (last.op = "stop" /\ last.out = "return") =>
        /\ send # last.mock
        /\ (\A m \in Mocks : ~Active(m)) => send = "orig"

(***************************************************************************)
(* C8. A start() of a mock whose session is active changes neither the     *)
(* installed hook, nor the remembered original send path, nor the state of *)
(* the session: it fails or does nothing.                                  *)
(***************************************************************************)
C8_StartWhileActive ==
    [][\A m \in Mocks :
          (Active(m) /\ Start(m)) => (send' = send /\ patcher' = patcher)]_vars

(***************************************************************************)
(* C9, as stated. The registry and the recorder of a mock are empty right  *)
(* after its start() and right after its stop().                           *)
(***************************************************************************)
C9_AsStated ==
    (last.op \in {"start", "stop"} /\ last.out = "return") =>
        (urls[last.mock] = <<>> /\ calls[last.mock] = <<>>)

(***************************************************************************)
(* C9, amended. start() and stop() leave the registry and the recorder of  *)
(* every mock as they were: what was registered and recorded before a      *)
(* session start or stop survives it. The two are empty right after        *)
(* reset(), which the activate wrapper runs after its stop() returned.     *)
(***************************************************************************)
C9_ResetEmpties ==
    [][/\ last'.op \in {"start", "stop", "enter"} =>
            (urls' = urls /\ calls' = calls)
       /\ (\/ last'.op = "reset"
           \/ last'.op = "exit" /\ last'.out \in {"return", "raise"}) =>
            /\ urls'[last'.mock] = <<>>
            /\ calls'[last'.mock] = <<>>
            /\ \A m \in Mocks \ {last'.mock} :
                  urls'[m] = urls[m] /\ calls'[m] = calls[m]]_vars

\* an expectation and a call are there after a stop() that uninstalled the hook
C9_Witness ==
    /\ last.op = "stop"
    /\ last.out = "return"
    /\ send = "orig"
    /\ urls[last.mock] # <<>>
    /\ calls[last.mock] # <<>>

(***************************************************************************)
(* C11. Urls that name only a host match in both directions: a request for *)
(* h://x or for h://x/ is answered whenever the registry holds an          *)
(* expectation of its method that was registered for h://x or for h://x/.  *)
(* (add() stores h://x as h://x/ unless match_querystring is set.)         *)
(***************************************************************************)
C11_HostOnlyBothWays ==
    (Dispatched /\ LastDispatch.request.url \in HostUrls) =>
        ((\E i \in 1..Len(urls[last.mock]) :
             /\ urls[last.mock][i].method = LastDispatch.request.method
             /\ urls[last.mock][i].url \in HostUrls)
         => (LastDispatch.match # 0 /\ LastDispatch.out = "returned"))

(***************************************************************************)
(* C12. Every dispatch that resolved via a callback-backed expectation     *)
(* called the callback exactly once, with a snapshot whose method and url  *)
(* are those of the request; and whatever the callback returned, the       *)
(* dispatch returned and recorded the response built from it: the          *)
(* response that delivers the returned logical response, or the returned   *)
(* transport response itself.                                              *)
(***************************************************************************)
C12_CallbackResolution ==
    \A m \in Mocks : \A k \in 1..Len(disp[m]) :
        LET d == disp[m][k] IN
        (d.match # 0 /\ urls[m][d.match].side_effect.kind = "callable") =>
            /\ Len(d.called) = 1
            /\ d.called[1].method = d.request.method
            /\ d.called[1].url = d.request.url
            /\ LET r == CallSideEffect(urls[m][d.match].side_effect.fn,
                                       d.called[1])
               IN  r.out = "return" =>
                     /\ d.out = "returned"
                     /\ IF r.value.kind = "Response"
                        THEN Delivers(d.response, r.value)
                        ELSE d.response = r.value
                     /\ \E j \in 1..Len(calls[m]) :
                           calls[m][j].response = d.response

(***************************************************************************)
(* C13. reset() can be called whether the session of the mock is active or *)
(* not; it empties the registry and the recorder of the mock and leaves    *)
(* the sessions, the installed hook and the running wrappers as they were. *)
(* A request that reaches a mock whose registry is empty, as it is after   *)
(* reset() until the next add(), ends in the ConnectionError of no match.  *)
(***************************************************************************)
C13_ResetFrame ==
    [][/\ \A m \in Mocks : ENABLED Reset(m)
       /\ last'.op = "reset" =>
             /\ urls'[last'.mock] = <<>>
             /\ calls'[last'.mock] = <<>>
             /\ patcher' = patcher
             /\ send' = send
             /\ stack' = stack
       /\ (last'.op = "send" /\ send # "orig" /\ urls[send] = <<>>) =>
             /\ last'.out = "refused"
             /\ disp'[send][Len(disp'[send])].match = 0
             /\ disp'[send][Len(disp'[send])].response.kind = "ConnectionError"]_vars

\* reset() has run on a mock whose session is active and whose hook is
\* installed
C13_Witness ==
    /\ last.op = "reset"
    /\ Active(last.mock)
    /\ send = last.mock
    /\ urls[last.mock] = <<>>
    /\ calls[last.mock] = <<>>

(***************************************************************************)
(* C14. A dispatch leaves the registry of its mock with the same length    *)
(* and order and every expectation with its method, url, match_querystring *)
(* flag, fixed response and kind and content of side_effect; it may move   *)
(* only the cursor of the sequence-backed expectation it resolved via. The *)
(* cursors of all other expectations, and the registries of the other      *)
(* mocks, stay as they were.                                               *)
(***************************************************************************)
C14_DispatchFrame ==
    [][(last'.op = "send" /\ send # "orig") =>
          LET m == send
              d == disp'[m][Len(disp'[m])]
          IN  /\ Len(urls'[m]) = Len(urls[m])
              /\ \A i \in 1..Len(urls[m]) :
                    /\ urls'[m][i].method = urls[m][i].method
                    /\ urls'[m][i].url = urls[m][i].url
                    /\ urls'[m][i].match_querystring = urls[m][i].match_querystring
                    /\ urls'[m][i].response = urls[m][i].response
                    /\ urls'[m][i].side_effect.kind = urls[m][i].side_effect.kind
                    /\ urls'[m][i].side_effect.items = urls[m][i].side_effect.items
                    /\ urls'[m][i].side_effect.fn = urls[m][i].side_effect.fn
                    /\ (i # d.match \/ urls[m][i].side_effect.kind # "iter")
                          => urls'[m][i].side_effect = urls[m][i].side_effect
              /\ \A o \in Mocks \ {m} : urls'[o] = urls[o]]_vars

\* a dispatch moved the cursor of the second of two sequence-backed
\* expectations, and the cursor of the first is where it was
C14_Witness ==
    /\ Dispatched
    /\ Len(urls[last.mock]) = 2
    /\ LastDispatch.match = 2
    /\ urls[last.mock][1].side_effect.kind = "iter"
    /\ urls[last.mock][1].side_effect.pos = 0
    /\ urls[last.mock][2].side_effect.kind = "iter"
    /\ urls[last.mock][2].side_effect.pos = 1
    /\ Len(disp[last.mock]) = 1

C16_FixedResponseReuse ==
    \A m \in Mocks : \A i \in 1..Len(urls[m]) :
        urls[m][i].side_effect.kind = "none" =>
            \A k1, k2 \in 1..Len(disp[m]) :
                (disp[m][k1].match = i /\ disp[m][k2].match = i) =>
                    /\ disp[m][k1].out = "returned"
                    /\ disp[m][k2].out = "returned"
                    /\ disp[m][k1].response.body = disp[m][k2].response.body
                    /\ disp[m][k1].response.status = disp[m][k2].response.status
                    /\ disp[m][k1].response.headers = disp[m][k2].response.headers

\* three dispatches via the same streamed response returned its two bytes
\* each; the test had read the first response to its end and one byte of the
\* second
C16_Witness ==
    /\ Len(disp["m1"]) = 3
    /\ \A k \in 1..3 :
          /\ disp["m1"][k].match = 1
          /\ disp["m1"][k].out = "returned"
          /\ disp["m1"][k].response.body = <<195, 169>>
    /\ urls["m1"][1].response.stream
    /\ Len(calls["m1"]) = 3
    /\ calls["m1"][1].response.raw.pos = 2
    /\ calls["m1"][2].response.raw.pos = 1
    /\ calls["m1"][3].response.raw.pos = 0

(***************************************************************************)
(* C17. The snapshot handed to a callback shares nothing that can change   *)
(* with the live request: whatever the callback did to the method, url,    *)
(* headers, params or data of the snapshot, the live request after the     *)
(* dispatch, which is the request of the recorded call, is as it was sent. *)
(***************************************************************************)
C17_SnapshotIsolated ==
    \A m \in Mocks : \A k \in 1..Len(disp[m]) :
        disp[m][k].called # <<>> =>
            /\ disp[m][k].live = disp[m][k].request
            /\ \A j \in 1..Len(calls[m]) :
                  calls[m][j].response = disp[m][k].response
                  => calls[m][j].request = disp[m][k].request

(***************************************************************************)
(* C18. A dispatch ends in the 'Connection refused' ConnectionError if and *)
(* only if the matcher found no expectation for the request: a request     *)
(* that an expectation matched never ends in it, whatever the side_effect  *)
(* of the expectation is or returns.                                       *)
(***************************************************************************)
C18_RefusedIffNoMatch ==
    \A m \in Mocks : \A k \in 1..Len(disp[m]) :
        (/\ disp[m][k].out = "refused"
         /\ disp[m][k].response.kind = "ConnectionError")
        <=> disp[m][k].match = 0

(***************************************************************************)
(* C19. When the resolution of a matched expectation fails, the dispatch   *)
(* raises that failure as it is (the exhaustion signal of a sequence, the  *)
(* error of the callback, the error of building the snapshot) and it       *)
(* leaves the recorder and the registry as they were: no call is added and *)
(* no cursor moves.                                                        *)
(***************************************************************************)
C19_FailedResolutionFrame ==
    [][(last'.op = "send" /\ send # "orig" /\ last'.out = "raised") =>
          LET d == disp'[send][Len(disp'[send])]
              e == urls[send][d.match]
          IN  /\ d.match # 0
              /\ calls' = calls
              /\ urls' = urls
              /\ d.response.kind =
                    IF e.side_effect.kind = "iter" THEN "StopIteration"
                    ELSE IF d.called = <<>> THEN "AttributeError"
                    ELSE "CallbackError"
              /\ e.side_effect.kind = "iter" =>
                    e.side_effect.pos = Len(e.side_effect.items)]_vars

\* after R1 was returned and recorded, the exhausted sequence and then the
\* callback failed: still one call
C19_Witness ==
    /\ Len(disp["m1"]) = 3
    /\ disp["m1"][1].out = "returned"
    /\ disp["m1"][2].out = "raised"
    /\ disp["m1"][2].response.kind = "StopIteration"
    /\ disp["m1"][3].out = "raised"
    /\ disp["m1"][3].response.kind = "CallbackError"
    /\ Len(calls["m1"]) = 1
    /\ urls["m1"][1].side_effect.pos = 1

(***************************************************************************)
(* C20. Each sequence-backed expectation has a cursor of its own: its      *)
(* cursor stands as many items into its sequence as dispatches have        *)
(* resolved via this expectation since it was registered (at most at the   *)
(* end). So an expectation registered with a sequence that another         *)
(* expectation holds, or held before reset(), starts at R1, and a dispatch *)
(* via one expectation moves the cursor of no other.                       *)
(***************************************************************************)
C20_OwnCursor ==
    \A m \in Mocks : \A i \in 1..Len(urls[m]) :
        urls[m][i].side_effect.kind = "iter" =>
            LET via == Cardinality({k \in 1..Len(disp[m]) : disp[m][k].match = i})
                n == Len(urls[m][i].side_effect.items)
            IN  urls[m][i].side_effect.pos = IF via < n THEN via ELSE n

\* two expectations hold the same sequence R1, R2; two dispatches went via
\* the first and one via the second
C20_Witness ==
    /\ Len(urls["m1"]) = 2
    /\ urls["m1"][1].side_effect.kind = "iter"
    /\ urls["m1"][2].side_effect.kind = "iter"
    /\ urls["m1"][1].side_effect.items = urls["m1"][2].side_effect.items
    /\ Len(urls["m1"][1].side_effect.items) = 2
    /\ urls["m1"][1].side_effect.pos = 2
    /\ urls["m1"][2].side_effect.pos = 1
    /\ Len(disp["m1"]) = 3
    /\ disp["m1"][3].match = 2
    /\ disp["m1"][3].response.status = 201

====
